---- MODULE Spec2Model ----
(***************************************************************************)
(* Model of the screenshot tool:                                           *)
(*   - the capture service, the POST handler of src/app/layout.tsx         *)
(*     (lines 31-124), driving one puppeteer session per request;          *)
(*   - the request composer, the Page component of src/app/page.tsx,       *)
(*     with its preview, its history and the history kept in localStorage. *)
(* Every awaited call of a handler is one action; the synchronous code     *)
(* that follows the await belongs to the same action.                      *)
(***************************************************************************)
EXTENDS Integers, Sequences, FiniteSets, TLC

VARIABLES
    active,        \* the POST invocations of this run
    body,          \* per invocation: the request body as received
    validated,     \* per invocation: const validated (NotValidated before)
    pc,            \* per invocation: the await the handler is suspended at
    browser,       \* per invocation: const browser, a session id (0: none)
    page,          \* per invocation: const page, the session id of the page (0: none)
    screenshotBuf, \* per invocation: let screenshot (NoBuffer before capture)
    response,      \* per invocation: the NextResponse returned (NoResponse before)
    cause,         \* per invocation: the await whose rejection reached the catch block
    log,           \* per invocation: the calls made so far, in order, with their session
    sessions,      \* the browser processes launched so far, by session id
    mounted,       \* Page: whether the useEffect of the mount has run
    isLoading,     \* Page: useState isLoading
    screenshot,    \* Page: useState screenshot, the preview (NoScreenshot: null)
    history,       \* Page: useState history
    options,       \* Page: useState options
    storage,       \* localStorage item "screenshotHistory"
    hpc,           \* handleScreenshot: the await it is suspended at ("idle": not running)
    closure,       \* handleScreenshot: the options and history of the render it was created in
    inflight,      \* handleScreenshot: const response, what the latest fetch resolved with
    toast,         \* the notification shown last
    fetches,       \* calls of fetch("/api/screenshot") so far
    now            \* Date.now()

svars == <<active, body, validated, pc, browser, page, screenshotBuf, response,
           cause, log, sessions>>

cvars == <<mounted, isLoading, screenshot, history, options, storage, hpc, closure,
           inflight, toast, fetches, now>>

vars == <<svars, cvars>>

----------------------------------------------------------------------------
(* Bounds *)

NumReqs == 2

Reqs == 1..NumReqs

----------------------------------------------------------------------------
(* Request bodies *)

\* The body the composer sends with its initial options and a URL filled in.
Base ==
    [url |-> "https://example.com", fullSize |-> FALSE, useProxy |-> FALSE,
     noAds |-> FALSE, width |-> 1280, height |-> 720, zoom |-> 100,
     format |-> "png", quality |-> 80, delay |-> 0, css |-> ""]

With(b, f, v) == [b EXCEPT ![f] = v]

Without(b, f) == [k \in DOMAIN b \ {f} |-> b[k]]

\* A body using every optional step of the handler.
AllSteps ==
    [Base EXCEPT !.noAds = TRUE, !.css = "body{margin:0}", !.delay = 500]

Bodies ==
    {Base, AllSteps}
    \cup {With(Base, "width", w) : w \in {99, 100, 3840, 3841}}
    \cup {With(Base, "height", h) : h \in {99, 100, 2160, 2161}}
    \cup {With(Base, "zoom", z) : z \in {9, 10, 200, 201}}
    \cup {With(Base, "quality", q) : q \in {-1, 0, 100, 101}}
    \cup {With(Base, "delay", d) : d \in {-1, 10000, 10001}}
    \cup {With(Base, "url", u) : u \in {"not a url", "", "https://ads.example/"}}
    \cup {With(Base, "format", f) : f \in {"jpeg", "pdf", "gif"}}
    \cup {With(With(Base, "format", f), "quality", q) :
             f \in {"jpeg", "pdf"}, q \in {0, 10, 100, 101}}
    \cup {With(With(Base, "fullSize", TRUE), "url", "https://ads.example/"),
          With(With(Base, "fullSize", TRUE), "zoom", 200)}
    \cup {With(Base, "fullSize", TRUE), With(Base, "useProxy", TRUE),
          With(Base, "noAds", TRUE), With(Base, "css", "body{margin:0}")}
    \cup {With(AllSteps, "width", 99), With(AllSteps, "quality", 101),
          With(AllSteps, "url", "not a url"), With(AllSteps, "format", "pdf")}
    \cup {Without(Base, f) :
             f \in {"url", "width", "fullSize", "useProxy", "noAds", "format",
                    "quality", "delay", "css"}}

\* What arrives: a JSON text that parses to one of the bodies, or one that does not parse.
Requests ==
    {[wellFormed |-> TRUE, data |-> b] : b \in Bodies}
    \cup {[wellFormed |-> FALSE, data |-> Base]}

\* The requests of the runs with several invocations in flight.
ConcRequests ==
    {[wellFormed |-> TRUE, data |-> b] :
        b \in {With(AllSteps, "url", "https://ads.example/"),
                With(Base, "width", 99)}}

----------------------------------------------------------------------------
(* screenshotSchema *)

\* z.string().url() on the URL texts the bodies use.
isUrl(u) == u \in {"https://example.com", "https://ads.example/"}

Required == {"url", "width", "height", "zoom"}

Defaults ==
    [fullSize |-> FALSE, useProxy |-> FALSE, noAds |-> FALSE, format |-> "png",
     quality |-> 80, delay |-> 0]

\* The fields with a .default() take it when the body leaves them out; css stays absent.
applyDefaults(d) ==
    [k \in DOMAIN d \cup DOMAIN Defaults |->
        IF k \in DOMAIN d THEN d[k] ELSE Defaults[k]]

\* A schema that leaves the height's upper limit and the quality unchecked.
schemaAcceptsLoose(d) ==
    /\ Required \subseteq DOMAIN d
    /\ LET v == applyDefaults(d) IN
        /\ isUrl(v.url)
        /\ v.width >= 100 /\ v.width <= 3840
        /\ v.height >= 100
        /\ v.zoom >= 10 /\ v.zoom <= 200
        /\ v.format \in {"png", "jpeg", "pdf"}
        /\ v.delay >= 0 /\ v.delay <= 10000

\* screenshotSchema.parse(data) returns (TRUE) or throws a ZodError (FALSE).
schemaAccepts(d) ==
    /\ Required \subseteq DOMAIN d
    /\ LET v == applyDefaults(d) IN
        /\ isUrl(v.url)
        /\ v.width >= 100 /\ v.width <= 3840
        /\ v.height >= 100 /\ v.height <= 2160
        /\ v.zoom >= 10 /\ v.zoom <= 200
        /\ v.format \in {"png", "jpeg", "pdf"}
        /\ v.quality >= 0 /\ v.quality <= 100
        /\ v.delay >= 0 /\ v.delay <= 10000

NotValidated == [parsed |-> FALSE]

\* JavaScript truthiness of validated.css: absent and "" are both falsy.
hasCss(v) == "css" \in DOMAIN v /\ v.css # ""

----------------------------------------------------------------------------
(* The puppeteer session *)

\* A freshly launched browser: no page yet; a new page has puppeteer's default viewport.
NewSession ==
    [state |-> "open", closeCalls |-> 0, pages |-> 0,
     viewport |-> [width |-> 800, height |-> 600,
                   deviceScaleFactor |-> [num |-> 1, den |-> 1]],
     interception |-> FALSE, listeners |-> 0, url |-> "", loaded |-> FALSE,
     styles |-> <<>>, issued |-> 0, net |-> <<>>]

\* A launch that hands every caller the one browser it started first.
launchShared(ss) ==
    IF Len(ss) > 0 THEN [sessions |-> ss, id |-> 1]
    ELSE [sessions |-> Append(ss, NewSession), id |-> 1]

\* puppeteer.launch({headless: true}) starts a new browser process on every call.
puppeteerLaunch(ss) ==
    [sessions |-> Append(ss, NewSession), id |-> Len(ss) + 1]

\* What the page at a URL asks the network for, in order; the document comes first.
Resources(u) ==
    IF u = "https://ads.example/"
    THEN <<"document", "advertisement">>
    ELSE <<"document", "advertisement", "image", "media">>

\* A request handler that lets media through.
onRequestAdsOnly(t) ==
    IF t = "advertisement"
    THEN [type |-> t, intercepted |-> TRUE, aborts |-> 1, continues |-> 0,
          overrides |-> FALSE, completed |-> FALSE]
    ELSE [type |-> t, intercepted |-> TRUE, aborts |-> 0, continues |-> 1,
          overrides |-> FALSE, completed |-> TRUE]

\* The "request" listener: abort advertisements and media, continue the rest as they are.
onRequest(t) ==
    IF t = "advertisement" \/ t = "media"
    THEN [type |-> t, intercepted |-> TRUE, aborts |-> 1, continues |-> 0,
          overrides |-> FALSE, completed |-> FALSE]
    ELSE [type |-> t, intercepted |-> TRUE, aborts |-> 0, continues |-> 1,
          overrides |-> FALSE, completed |-> TRUE]

\* A request of a page without interception goes to the network untouched.
passThrough(t) ==
    [type |-> t, intercepted |-> FALSE, aborts |-> 0, continues |-> 0,
     overrides |-> FALSE, completed |-> TRUE]

\* With interception on and no listener, nobody resolves the request: it stalls.
stalled(t) ==
    [type |-> t, intercepted |-> TRUE, aborts |-> 0, continues |-> 0,
     overrides |-> FALSE, completed |-> FALSE]

\* The resource types that reached the page.
Rendered(s) == {s.net[i].type : i \in {j \in DOMAIN s.net : s.net[j].completed}}

----------------------------------------------------------------------------
(* POST: the results *)

NoResponse == [pending |-> TRUE]

NoBuffer == [empty |-> TRUE]

\* page.pdf({format: "A4", printBackground: true}) on session s.
pdfBytes(s) ==
    [kind |-> "pdf", options |-> [format |-> "A4", printBackground |-> TRUE],
     url |-> s.url, styles |-> s.styles, rendered |-> Rendered(s)]

\* Options that pass the quality on for every format.
screenshotOptionsWithQuality(v) ==
    [fullPage |-> v.fullSize, type |-> v.format, quality |-> v.quality]

\* The options object of page.screenshot: quality is undefined unless the format is jpeg.
screenshotOptions(v) ==
    IF v.format = "jpeg"
    THEN [fullPage |-> v.fullSize, type |-> v.format, quality |-> v.quality]
    ELSE [fullPage |-> v.fullSize, type |-> v.format]

\* The height of the document at a URL, in CSS pixels.
documentHeight(u) == IF u = "https://ads.example/" THEN 3000 ELSE 25000

\* The scrollable height of the page of session s: the document's, at least the viewport's.
scrollHeight(s) ==
    IF documentHeight(s.url) > s.viewport.height
    THEN documentHeight(s.url) ELSE s.viewport.height

\* page.screenshot(options) on session s: the viewport, or with fullPage the whole
\* scrollable page; width and height in CSS pixels, each drawn at the scale factor.
screenshotBytes(s, v) ==
    [kind |-> "raster", options |-> screenshotOptions(v), viewport |-> s.viewport,
     width |-> s.viewport.width,
     height |-> IF screenshotOptions(v).fullPage THEN scrollHeight(s)
                ELSE s.viewport.height,
     scale |-> s.viewport.deviceScaleFactor,
     url |-> s.url, styles |-> s.styles, rendered |-> Rendered(s)]

\* A media type built as image/<format> for every format, pdf included.
mimeTypeAlwaysImage(format) ==
    IF format = "pdf" THEN "image/pdf"
    ELSE IF format = "png" THEN "image/png" ELSE "image/jpeg"

\* The media type of the data URI.
mimeType(format) ==
    IF format = "pdf" THEN "application/pdf"
    ELSE IF format = "png" THEN "image/png" ELSE "image/jpeg"

\* data:<type>;base64,<screenshot.toString("base64")>
dataUri(format, buf) ==
    [scheme |-> "data", mime |-> mimeType(format), encoding |-> "base64",
     payload |-> buf]

\* NextResponse.json({success: true, screenshot: ...}): status 200.
successResponse(v, buf) ==
    [success |-> TRUE, screenshot |-> dataUri(v.format, buf), status |-> 200]

\* A catch block that throws the error on instead of answering.
catchBlockRethrows(c) == [escaped |-> c]

\* The catch block: the same message and status 500 whatever was thrown.
catchBlock(c) ==
    [success |-> FALSE, error |-> "Failed to capture screenshot", status |-> 500]

----------------------------------------------------------------------------
(* POST: the steps *)

\* An event loop that a pending settle delay holds up for every other invocation.
SuspendedBehindDelay(r, at) ==
    /\ r \in active /\ pc[r] = at
    /\ \A q \in active \ {r} : pc[q] # "waitForTimeout"

\* Invocation r is suspended at the await named at, and its continuation may run:
\* an await gives the event loop back, whatever the other invocations wait for.
Suspended(r, at) == r \in active /\ pc[r] = at

Logged(r, op, sid) ==
    log' = [log EXCEPT ![r] = Append(@, [op |-> op, sid |-> sid])]

\* A catch block that answers a failed step with a success and whatever was captured.
ThrowDowngraded(r, c) ==
    /\ pc' = [pc EXCEPT ![r] = "done"]
    /\ response' = [response EXCEPT ![r] =
            [success |-> TRUE, screenshot |-> dataUri("png", screenshotBuf[r]),
             status |-> 200]]
    /\ cause' = [cause EXCEPT ![r] = c]

\* The awaited call rejected, or the synchronous code threw: the catch block answers.
Throw(r, c) ==
    /\ pc' = [pc EXCEPT ![r] = "done"]
    /\ response' = [response EXCEPT ![r] = catchBlock(c)]
    /\ cause' = [cause EXCEPT ![r] = c]

Continue(r, next) ==
    /\ pc' = [pc EXCEPT ![r] = next]
    /\ UNCHANGED <<response, cause>>

\* A handler that installs no filter, whatever noAds says.
afterViewportNoFilter(v) == "goto"

\* A handler that routes a useProxy request through the request interception.
afterViewportProxyFilter(v) ==
    IF v.noAds \/ v.useProxy THEN "setRequestInterception" ELSE "goto"

\* Line 68: after the viewport, the filter if noAds, else the navigation.
afterViewport(v) == IF v.noAds THEN "setRequestInterception" ELSE "goto"

\* Lines 85, 94: after the navigation, the style if css, the delay if delay > 0.
afterGoto(v) ==
    IF hasCss(v) THEN "evaluate"
    ELSE IF v.delay > 0 THEN "waitForTimeout" ELSE "capture"

\* Line 94: after the style injection.
afterEvaluate(v) == IF v.delay > 0 THEN "waitForTimeout" ELSE "capture"

\* const data = await req.json(); const validated = screenshotSchema.parse(data)
ReadBody(r) ==
    /\ Suspended(r, "json")
    /\ IF ~body[r].wellFormed
       THEN /\ Throw(r, "json")
            /\ UNCHANGED validated
       ELSE IF ~schemaAccepts(body[r].data)
       THEN /\ Throw(r, "validation")
            /\ UNCHANGED validated
       ELSE /\ validated' = [validated EXCEPT ![r] = applyDefaults(body[r].data)]
            /\ Continue(r, "launch")
    /\ UNCHANGED <<active, body, browser, page, screenshotBuf, log, sessions>>
    /\ UNCHANGED cvars

\* const browser = await puppeteer.launch({headless: true})
Launch(r) ==
    /\ Suspended(r, "launch")
    /\ \E ok \in BOOLEAN :
        IF ok
        THEN LET l == puppeteerLaunch(sessions) IN
             /\ sessions' = l.sessions
             /\ browser' = [browser EXCEPT ![r] = l.id]
             /\ Logged(r, "launch", l.id)
             /\ Continue(r, "newPage")
        ELSE /\ Logged(r, "launch", 0)
             /\ Throw(r, "launch")
             /\ UNCHANGED <<sessions, browser>>
    /\ UNCHANGED <<active, body, validated, page, screenshotBuf>>
    /\ UNCHANGED cvars

\* const page = await browser.newPage()
NewPage(r) ==
    /\ Suspended(r, "newPage")
    /\ Logged(r, "newPage", browser[r])
    /\ \E ok \in BOOLEAN :
        IF ok
        THEN /\ sessions' = [sessions EXCEPT ![browser[r]].pages = @ + 1]
             /\ page' = [page EXCEPT ![r] = browser[r]]
             /\ Continue(r, "setViewport")
        ELSE /\ Throw(r, "newPage")
             /\ UNCHANGED <<sessions, page>>
    /\ UNCHANGED <<active, body, validated, browser, screenshotBuf>>
    /\ UNCHANGED cvars

\* await page.setViewport({width, height, deviceScaleFactor: zoom / 100})
SetViewport(r) ==
    /\ Suspended(r, "setViewport")
    /\ Logged(r, "setViewport", page[r])
    /\ \E ok \in BOOLEAN :
        IF ok
        THEN /\ sessions' = [sessions EXCEPT ![page[r]].viewport =
                    [width |-> validated[r].width, height |-> validated[r].height,
                     deviceScaleFactor |-> [num |-> validated[r].zoom, den |-> 100]]]
             /\ Continue(r, afterViewport(validated[r]))
        ELSE /\ Throw(r, "setViewport")
             /\ UNCHANGED sessions
    /\ UNCHANGED <<active, body, validated, browser, page, screenshotBuf>>
    /\ UNCHANGED cvars

\* await page.setRequestInterception(true); page.on("request", ...)
SetRequestInterception(r) ==
    /\ Suspended(r, "setRequestInterception")
    /\ \E ok \in BOOLEAN :
        IF ok
        THEN /\ sessions' = [sessions EXCEPT ![page[r]].interception = TRUE,
                                             ![page[r]].listeners = @ + 1]
             /\ log' = [log EXCEPT ![r] =
                    @ \o <<[op |-> "setRequestInterception", sid |-> page[r]],
                           [op |-> "on", sid |-> page[r]]>>]
             /\ Continue(r, "goto")
        ELSE /\ Logged(r, "setRequestInterception", page[r])
             /\ Throw(r, "setRequestInterception")
             /\ UNCHANGED sessions
    /\ UNCHANGED <<active, body, validated, browser, page, screenshotBuf>>
    /\ UNCHANGED cvars

\* await page.goto(validated.url, {waitUntil: "networkidle0"}): the call.
PageGoto(r) ==
    /\ Suspended(r, "goto")
    /\ Logged(r, "goto", page[r])
    /\ \E ok \in BOOLEAN :
        IF ok
        THEN /\ sessions' = [sessions EXCEPT ![page[r]].url = validated[r].url]
             /\ Continue(r, "loading")
        ELSE /\ Throw(r, "navigation-error")
             /\ UNCHANGED sessions
    /\ UNCHANGED <<active, body, validated, browser, page, screenshotBuf>>
    /\ UNCHANGED cvars

\* The page of an open session asks for its next resource; with interception on,
\* the "request" listener decides, and without a listener the request stalls.
PageRequest(sid) ==
    /\ sid \in DOMAIN sessions
    /\ LET s == sessions[sid] IN
        /\ s.state = "open" /\ s.url # ""
        /\ s.issued < Len(Resources(s.url))
        /\ LET t == Resources(s.url)[s.issued + 1] IN
           sessions' = [sessions EXCEPT
               ![sid].issued = @ + 1,
               ![sid].net = Append(@,
                   IF ~s.interception THEN passThrough(t)
                   ELSE IF s.listeners > 0 THEN onRequest(t) ELSE stalled(t))]
    /\ UNCHANGED <<active, body, validated, pc, browser, page, screenshotBuf,
                   response, cause, log>>
    /\ UNCHANGED cvars

\* page.goto resolves: the document arrived and the network went idle.
NetworkIdle(r) ==
    /\ Suspended(r, "loading")
    /\ Len(sessions[page[r]].net) > 0 /\ sessions[page[r]].net[1].completed
    /\ sessions' = [sessions EXCEPT ![page[r]].loaded = TRUE]
    /\ Continue(r, afterGoto(validated[r]))
    /\ UNCHANGED <<active, body, validated, browser, page, screenshotBuf, log>>
    /\ UNCHANGED cvars

\* page.goto rejects with a TimeoutError: the network did not go idle in time.
NavigationTimeout(r) ==
    /\ Suspended(r, "loading")
    /\ Throw(r, "navigation-timeout")
    /\ UNCHANGED <<active, body, validated, browser, page, screenshotBuf, log,
                   sessions>>
    /\ UNCHANGED cvars

\* await page.evaluate(css => {... appendChild(style)}, validated.css)
Evaluate(r) ==
    /\ Suspended(r, "evaluate")
    /\ Logged(r, "evaluate", page[r])
    /\ \E ok \in BOOLEAN :
        IF ok
        THEN /\ sessions' = [sessions EXCEPT
                    ![page[r]].styles = Append(@, validated[r].css)]
             /\ Continue(r, afterEvaluate(validated[r]))
        ELSE /\ Throw(r, "evaluate")
             /\ UNCHANGED sessions
    /\ UNCHANGED <<active, body, validated, browser, page, screenshotBuf>>
    /\ UNCHANGED cvars

\* await page.waitForTimeout(validated.delay)
WaitForTimeout(r) ==
    /\ Suspended(r, "waitForTimeout")
    /\ Logged(r, "waitForTimeout", page[r])
    /\ \E ok \in BOOLEAN :
        IF ok THEN Continue(r, "capture") ELSE Throw(r, "waitForTimeout")
    /\ UNCHANGED <<active, body, validated, browser, page, screenshotBuf, sessions>>
    /\ UNCHANGED cvars

\* screenshot = await page.pdf(...) or await page.screenshot(...)
Capture(r) ==
    /\ Suspended(r, "capture")
    /\ Logged(r, IF validated[r].format = "pdf" THEN "pdf" ELSE "screenshot", page[r])
    /\ \E ok \in BOOLEAN :
        IF ok
        THEN /\ screenshotBuf' = [screenshotBuf EXCEPT ![r] =
                    IF validated[r].format = "pdf"
                    THEN pdfBytes(sessions[page[r]])
                    ELSE screenshotBytes(sessions[page[r]], validated[r])]
             /\ Continue(r, "close")
        ELSE /\ Throw(r, "capture")
             /\ UNCHANGED screenshotBuf
    /\ UNCHANGED <<active, body, validated, browser, page, sessions>>
    /\ UNCHANGED cvars

\* await browser.close(); return NextResponse.json({success: true, screenshot})
Close(r) ==
    /\ Suspended(r, "close")
    /\ Logged(r, "close", browser[r])
    /\ \E ok \in BOOLEAN :
        IF ok
        THEN /\ sessions' = [sessions EXCEPT ![browser[r]].state = "closed",
                                             ![browser[r]].closeCalls = @ + 1]
             /\ pc' = [pc EXCEPT ![r] = "done"]
             /\ response' = [response EXCEPT ![r] =
                    successResponse(validated[r], screenshotBuf[r])]
             /\ UNCHANGED cause
        ELSE /\ sessions' = [sessions EXCEPT ![browser[r]].closeCalls = @ + 1]
             /\ Throw(r, "close")
    /\ UNCHANGED <<active, body, validated, browser, page, screenshotBuf>>
    /\ UNCHANGED cvars

----------------------------------------------------------------------------
(* Page: the composer's state *)

MaxFetches == 3

sliceEnd == 9

Urls == {"", "https://example.com"}

NoScreenshot == [scheme |-> "null"]

NoClosure == [options |-> Base, history |-> <<>>]

NoInflight == [settled |-> FALSE]

NoItem == [present |-> FALSE, text |-> <<>>]

\* useState<ScreenshotOptions>({url: "", ...})
initialOptions == [Base EXCEPT !.url = ""]

Digit(d) == <<"0", "1", "2", "3", "4", "5", "6", "7", "8", "9">>[d + 1]

RECURSIVE toString(_)
\* Number.prototype.toString of a non-negative integer.
toString(n) == IF n < 10 THEN Digit(n) ELSE toString(n \div 10) \o Digit(n % 10)

\* JSON.stringify of a HistoryItem[]: each item's members in declaration order.
stringify(h) ==
    [i \in DOMAIN h |-> <<h[i].id, h[i].url, h[i].timestamp, h[i].screenshot>>]

\* JSON.parse of such a text.
parse(t) ==
    [i \in DOMAIN t |->
        [id |-> t[i][1], url |-> t[i][2], timestamp |-> t[i][3],
         screenshot |-> t[i][4]]]

\* history.slice(0, e): the first e items, all of them when there are fewer.
slice(h, e) == SubSeq(h, 1, IF Len(h) < e THEN Len(h) ELSE e)

\* An update that keeps every earlier item.
updatedHistoryUncapped(item, h) == <<item>> \o h

\* [newHistoryItem, ...history.slice(0, 9)]
updatedHistory(item, h) == <<item>> \o slice(h, sliceEnd)

\* The artifact the service answers a capture of options o with.
artifactOf(o) ==
    dataUri(o.format, [kind |-> "raster", url |-> o.url])

\* The history an earlier visit left in localStorage after n captures at times 1..n.
earlierHistory(n) ==
    [i \in 1..n |->
        [id |-> toString(n + 1 - i), url |-> "https://example.com",
         timestamp |-> n + 1 - i,
         screenshot |-> artifactOf([Base EXCEPT !.url = "https://example.com"])]]

\* What fetch and response.json() can give: the service's two results, a body that is
\* not JSON, or no response at all.
Answers(o) ==
    {[arrived |-> TRUE, json |-> TRUE,
      data |-> [success |-> TRUE, screenshot |-> artifactOf(o)]],
     [arrived |-> TRUE, json |-> TRUE,
      data |-> [success |-> FALSE, error |-> catchBlock("any").error]],
     [arrived |-> TRUE, json |-> FALSE, data |-> [success |-> FALSE]],
     [arrived |-> FALSE, json |-> FALSE, data |-> [success |-> FALSE]]}

InitComposer(item) ==
    /\ mounted = FALSE
    /\ isLoading = FALSE
    /\ screenshot = NoScreenshot
    /\ history = <<>>
    /\ options = initialOptions
    /\ storage = item
    /\ hpc = "idle"
    /\ closure = NoClosure
    /\ inflight = NoInflight
    /\ toast = "none"
    /\ fetches = 0
    /\ now = sliceEnd + 1

----------------------------------------------------------------------------
(* Page: the operations *)

\* useEffect(..., []): load the saved history, if there is one.
Mount ==
    /\ ~mounted
    /\ mounted' = TRUE
    /\ history' = IF storage.present /\ storage.text # <<>>
                  THEN parse(storage.text) ELSE history
    /\ UNCHANGED <<isLoading, screenshot, options, storage, hpc, closure, inflight,
                   toast, fetches, now>>
    /\ UNCHANGED svars

\* The URL input's onChange: setOptions(prev => ({...prev, url})).
SetUrl(u) ==
    /\ mounted /\ options.url # u
    /\ options' = [options EXCEPT !.url = u]
    /\ UNCHANGED <<mounted, isLoading, screenshot, history, storage, hpc, closure,
                   inflight, toast, fetches, now>>
    /\ UNCHANGED svars

Undefined == [scheme |-> "undefined"]

\* data.screenshot: undefined when the answer has no such member.
screenshotOf(data) ==
    IF "screenshot" \in DOMAIN data THEN data.screenshot ELSE Undefined

\* A test that only notices an answer that could not be parsed.
threwOnlyOnParse(resp) == ~resp.json

\* Lines 85-89: response.json() rejected, or data.success is falsy and the handler throws.
threw(resp) == ~resp.json \/ ~resp.data.success

\* A catch block that sends the request again instead of giving up.
CaughtRetries ==
    /\ toast' = "Failed to capture screenshot"
    /\ isLoading' = TRUE
    /\ hpc' = "fetch"

\* A handler without the finally block.
CaughtNoFinally ==
    /\ toast' = "Failed to capture screenshot"
    /\ isLoading' = isLoading
    /\ hpc' = "idle"

\* The catch and finally blocks of handleScreenshot.
Caught ==
    /\ toast' = "Failed to capture screenshot"
    /\ isLoading' = FALSE
    /\ hpc' = "idle"

\* A handler without the empty-URL check: every click calls fetch.
ClickNoUrlCheck ==
    /\ mounted /\ ~isLoading /\ hpc = "idle"
    /\ fetches < MaxFetches
    /\ isLoading' = TRUE
    /\ closure' = [options |-> options, history |-> history]
    /\ fetches' = fetches + 1
    /\ hpc' = "fetch"
    /\ inflight' = NoInflight
    /\ UNCHANGED <<mounted, screenshot, history, options, storage, now, toast>>
    /\ UNCHANGED svars

\* A click on the capture button (disabled while isLoading): handleScreenshot up to
\* its first await, or to its end when the URL is empty.
Click ==
    /\ mounted /\ ~isLoading /\ hpc = "idle"
    /\ IF options.url = ""
       THEN /\ toast' = "Please enter a URL"
            /\ UNCHANGED <<isLoading, hpc, closure, fetches, inflight>>
       ELSE /\ fetches < MaxFetches
            /\ isLoading' = TRUE
            /\ closure' = [options |-> options, history |-> history]
            /\ fetches' = fetches + 1
            /\ hpc' = "fetch"
            /\ inflight' = NoInflight
            /\ UNCHANGED toast
    /\ UNCHANGED <<mounted, screenshot, history, options, storage, now>>
    /\ UNCHANGED svars

\* const response = await fetch(...) settles; time has passed.
FetchSettles ==
    /\ hpc = "fetch"
    /\ now' = now + 1
    /\ \E a \in Answers(closure.options) :
        IF a.arrived
        THEN /\ inflight' = a
             /\ hpc' = "json"
             /\ UNCHANGED <<toast, isLoading>>
        ELSE /\ Caught
             /\ UNCHANGED inflight
    /\ UNCHANGED <<mounted, screenshot, history, options, storage, closure, fetches>>
    /\ UNCHANGED svars

\* const data = await response.json() settles, and the rest of handleScreenshot runs.
JsonSettles ==
    /\ hpc = "json"
    /\ UNCHANGED inflight
    /\ IF threw(inflight)
       THEN /\ Caught
            /\ UNCHANGED <<screenshot, history, storage>>
       ELSE LET item == [id |-> toString(now), url |-> closure.options.url,
                         timestamp |-> now,
                         screenshot |-> screenshotOf(inflight.data)]
                updated == updatedHistory(item, closure.history)
            IN  /\ screenshot' = screenshotOf(inflight.data)
                /\ history' = updated
                /\ \E stored \in BOOLEAN :
                    IF stored
                    THEN /\ storage' = [present |-> TRUE, text |-> stringify(updated)]
                         /\ toast' = "Screenshot captured successfully!"
                         /\ isLoading' = FALSE
                         /\ hpc' = "idle"
                    ELSE /\ Caught
                         /\ UNCHANGED storage
    /\ UNCHANGED <<mounted, options, closure, fetches, now>>
    /\ UNCHANGED svars

\* The user reloads the page: the component starts over, localStorage stays.
Reload ==
    /\ mounted
    /\ mounted' = FALSE
    /\ isLoading' = FALSE
    /\ screenshot' = NoScreenshot
    /\ history' = <<>>
    /\ options' = initialOptions
    /\ hpc' = "idle"
    /\ closure' = NoClosure
    /\ inflight' = NoInflight
    /\ toast' = "none"
    /\ UNCHANGED <<storage, fetches, now>>
    /\ UNCHANGED svars

----------------------------------------------------------------------------
(* The capture service on its own *)

InitService(rs) ==
    /\ active = rs
    /\ validated = [r \in Reqs |-> NotValidated]
    /\ pc = [r \in Reqs |-> "json"]
    /\ browser = [r \in Reqs |-> 0]
    /\ page = [r \in Reqs |-> 0]
    /\ screenshotBuf = [r \in Reqs |-> NoBuffer]
    /\ response = [r \in Reqs |-> NoResponse]
    /\ cause = [r \in Reqs |-> "none"]
    /\ log = [r \in Reqs |-> <<>>]
    /\ sessions = <<>>

\* One invocation, with any of the request bodies.
Init ==
    /\ InitService({1})
    /\ \E b \in Requests : body = [r \in Reqs |-> b]
    /\ InitComposer(NoItem)

\* NumReqs invocations in flight together.
InitConc ==
    /\ InitService(Reqs)
    /\ body \in [Reqs -> ConcRequests]
    /\ InitComposer(NoItem)

\* Pairs of bodies that differ in one field only: the quality, or useProxy.
BodyPairs ==
    LET png == With(AllSteps, "url", "https://ads.example/")
        pdf == With(png, "format", "pdf")
    IN  {<<png, With(png, "quality", 10)>>,
         <<pdf, With(pdf, "quality", 10)>>,
         <<pdf, With(pdf, "quality", 101)>>,
         <<png, With(png, "useProxy", TRUE)>>,
         <<With(Base, "format", "pdf"), With(With(Base, "format", "pdf"), "useProxy", TRUE)>>}

\* Two invocations whose bodies form such a pair.
InitPair ==
    /\ InitService({1, 2})
    /\ \E p \in BodyPairs :
        body = [r \in Reqs |-> [wellFormed |-> TRUE,
                                data |-> IF r = 1 THEN p[1] ELSE p[2]]]
    /\ InitComposer(NoItem)

\* The composer on its own, with the history an earlier visit may have saved.
InitPage ==
    /\ InitService({})
    /\ body = [r \in Reqs |-> [wellFormed |-> TRUE, data |-> Base]]
    /\ \E n \in 0..(sliceEnd + 1) :
        InitComposer(IF n = 0 THEN NoItem
                     ELSE [present |-> TRUE, text |-> stringify(earlierHistory(n))])

\* Any continuation of invocation r.
HandlerStep(r) ==
    \/ ReadBody(r)
    \/ Launch(r)
    \/ NewPage(r)
    \/ SetViewport(r)
    \/ SetRequestInterception(r)
    \/ PageGoto(r)
    \/ NetworkIdle(r)
    \/ NavigationTimeout(r)
    \/ Evaluate(r)
    \/ WaitForTimeout(r)
    \/ Capture(r)
    \/ Close(r)

Next ==
    \/ \E r \in Reqs :
        \/ ReadBody(r)
        \/ Launch(r)
        \/ NewPage(r)
        \/ SetViewport(r)
        \/ SetRequestInterception(r)
        \/ PageGoto(r)
        \/ NetworkIdle(r)
        \/ NavigationTimeout(r)
        \/ Evaluate(r)
        \/ WaitForTimeout(r)
        \/ Capture(r)
        \/ Close(r)
    \/ \E sid \in DOMAIN sessions : PageRequest(sid)

NextPage ==
    \/ Mount
    \/ \E u \in Urls : SetUrl(u)
    \/ Click
    \/ FetchSettles
    \/ JsonSettles
    \/ Reload

Spec == Init /\ [][Next]_vars

SpecConc == InitConc /\ [][Next]_vars

SpecPair == InitPair /\ [][Next]_vars

SpecPage == InitPage /\ [][NextPage]_vars

\* The composer when every pending promise settles: fetch resolves or rejects, and
\* so does response.json(); the continuation then runs.
SpecPageFair ==
    /\ InitPage /\ [][NextPage]_vars
    /\ WF_vars(FetchSettles)
    /\ WF_vars(JsonSettles)

----------------------------------------------------------------------------
(* Properties of the capture service *)

Ops(r) == {log[r][i].op : i \in DOMAIN log[r]}

Done(r) == r \in active /\ pc[r] = "done"

\* C1: every request that acquired a browser session has closed it, exactly once,
\* by the time the handler has returned, whichever step failed.
C1_SessionClosedOnReturn ==
    \A r \in active :
        (pc[r] = "done" /\ browser[r] # 0) =>
            /\ sessions[browser[r]].state = "closed"
            /\ sessions[browser[r]].closeCalls = 1

OutOfRange(d, f, lo, hi) == f \in DOMAIN d /\ (d[f] < lo \/ d[f] > hi)

ViolatesConstraint(d) ==
    \/ OutOfRange(d, "width", 100, 3840)
    \/ OutOfRange(d, "height", 100, 2160)
    \/ OutOfRange(d, "zoom", 10, 200)
    \/ OutOfRange(d, "quality", 0, 100)
    \/ OutOfRange(d, "delay", 0, 10000)
    \/ ("url" \in DOMAIN d /\ d.url \in {"not a url", ""})

\* C2: a request with a field outside its constraint never calls puppeteer.launch,
\* holds no session, and is answered with a failure.
C2_InvalidNeverLaunches ==
    \A r \in active :
        ViolatesConstraint(body[r].data) =>
            /\ pc[r] \in {"json", "done"}
            /\ browser[r] = 0 /\ page[r] = 0
            /\ "launch" \notin Ops(r)
            /\ sessions = <<>>
            /\ pc[r] = "done" => response[r].success = FALSE

C2_Witness ==
    /\ Done(1)
    /\ body[1].wellFormed
    /\ body[1].data.quality = 101 /\ body[1].data.format = "png"
    /\ response[1].success = FALSE

\* C3: when every step through the capture succeeded and browser.close then fails,
\* the caller still receives the success result with the captured artifact.
C3_CloseFailureKeepsResult ==
    \A r \in active :
        (pc[r] = "done" /\ cause[r] = "close") =>
            response[r] = successResponse(validated[r], screenshotBuf[r])

\* The step of the pipeline a call belongs to.
StepOf(op) ==
    CASE op \in {"launch", "newPage"} -> 1
      [] op = "setViewport" -> 2
      [] op \in {"setRequestInterception", "on"} -> 3
      [] op = "goto" -> 4
      [] op = "evaluate" -> 5
      [] op = "waitForTimeout" -> 6
      [] op \in {"pdf", "screenshot"} -> 7
      [] op = "close" -> 8

\* C4: the calls of one request are made in the order acquire, viewport, filter (if
\* noAds), navigate, style (if css), delay (if delay > 0), capture, teardown, none
\* twice and none skipped; when the navigation starts with noAds set, interception
\* is on and the listener is registered.
C4_StepsInOrder ==
    \A r \in active :
        /\ \A i, j \in DOMAIN log[r] :
            i < j => /\ StepOf(log[r][i].op) <= StepOf(log[r][j].op)
                     /\ log[r][i].op # log[r][j].op
        /\ \A i \in DOMAIN log[r] :
            LET k == StepOf(log[r][i].op)
                before == {StepOf(log[r][j].op) : j \in 1..(i - 1)}
                v == validated[r]
            IN  /\ k > 1 => (k - 1) \in before
                            \/ (k = 4 /\ ~v.noAds /\ 2 \in before)
                            \/ (k = 6 /\ ~hasCss(v) /\ 4 \in before)
                            \/ (k = 7 /\ v.delay = 0 /\ hasCss(v) /\ 5 \in before)
                            \/ (k = 7 /\ v.delay = 0 /\ ~hasCss(v) /\ 4 \in before)
                /\ k = 3 => v.noAds
                /\ k = 5 => hasCss(v)
                /\ k = 6 => v.delay > 0
        /\ ("goto" \in Ops(r) /\ validated[r].noAds) =>
            /\ {"setRequestInterception", "on"} \subseteq Ops(r)
            /\ sessions[page[r]].interception
            /\ sessions[page[r]].listeners = 1
        /\ \A op \in {"evaluate", "waitForTimeout", "pdf", "screenshot"} :
            op \in Ops(r) => sessions[page[r]].loaded

C4_Witness ==
    /\ Done(1) /\ cause[1] = "none"
    /\ [i \in DOMAIN log[1] |-> log[1][i].op] =
         <<"launch", "newPage", "setViewport", "setRequestInterception", "on",
           "goto", "evaluate", "waitForTimeout", "screenshot", "close">>

Blocked == {"advertisement", "media"}

\* C5: with noAds, every request of the page is intercepted and resolved exactly
\* once: advertisement and media requests are aborted and never complete, all
\* others are continued unmodified and complete. Without noAds no request is
\* intercepted or aborted.
C5_FilterPolicy ==
    \A r \in active :
        page[r] # 0 =>
            \A i \in DOMAIN sessions[page[r]].net :
                LET n == sessions[page[r]].net[i] IN
                IF validated[r].noAds
                THEN /\ n.intercepted
                     /\ n.aborts + n.continues = 1
                     /\ n.type \in Blocked => (n.aborts = 1 /\ ~n.completed)
                     /\ n.type \notin Blocked =>
                            (n.continues = 1 /\ n.completed /\ ~n.overrides)
                ELSE /\ ~n.intercepted
                     /\ n.aborts = 0 /\ n.continues = 0
                     /\ n.completed

C5_Witness ==
    /\ page[1] # 0 /\ validated[1].noAds
    /\ LET net == sessions[page[1]].net IN
        /\ Len(net) = 4
        /\ net[2].type = "advertisement" /\ net[2].aborts = 1
        /\ net[3].type = "image" /\ net[3].completed
        /\ net[4].type = "media" /\ ~net[4].completed

\* The failure kind of the taxonomy for the step that failed.
KindOf(c) ==
    CASE c = "validation" -> "validation-error"
      [] c \in {"launch", "newPage"} -> "session-start-failure"
      [] c = "navigation-timeout" -> "navigation-timeout"
      [] c = "navigation-error" -> "navigation-error"
      [] c = "capture" -> "capture-failure"
      [] OTHER -> "internal-failure"

\* What a failure result tells the caller about its kind.
ReportedKind(resp) == IF "kind" \in DOMAIN resp THEN resp.kind ELSE resp.error

\* C6: every failure result identifies the kind of the step that failed.
C6_FailureKindReported ==
    \A r \in active :
        (pc[r] = "done" /\ cause[r] # "none") =>
            ReportedKind(response[r]) = KindOf(cause[r])

\* C7: an invocation that has ended has returned a structured result: with no
\* failure {success: true, screenshot} and a 2xx status, after a failure at any
\* stage {success: false, error} and a non-2xx status; no error escapes; an
\* invocation that has not ended has returned nothing.
C7_StructuredResult ==
    \A r \in active :
        IF pc[r] = "done"
        THEN IF cause[r] = "none"
             THEN /\ DOMAIN response[r] = {"success", "screenshot", "status"}
                  /\ response[r].success = TRUE
                  /\ response[r].screenshot.payload = screenshotBuf[r]
                  /\ response[r].status \in 200..299
             ELSE /\ DOMAIN response[r] = {"success", "error", "status"}
                  /\ response[r].success = FALSE
                  /\ response[r].error # ""
                  /\ response[r].status \notin 200..299
        ELSE response[r] = NoResponse /\ cause[r] = "none"

C7_Witness ==
    /\ Done(1) /\ cause[1] = "json"
    /\ response[1] = [success |-> FALSE, error |-> "Failed to capture screenshot",
                      status |-> 500]

\* C10: no session is shared: two invocations never hold, use or close the same
\* session, every call of an invocation goes to the session it launched itself, and
\* every session launched belongs to exactly one invocation.
C10_SessionsNotShared ==
    /\ \A r1, r2 \in active :
        r1 # r2 =>
            /\ browser[r1] # 0 => browser[r1] # browser[r2]
            /\ \A i \in DOMAIN log[r1], j \in DOMAIN log[r2] :
                log[r1][i].sid # 0 => log[r1][i].sid # log[r2][j].sid
    /\ \A r \in active :
        /\ \A i \in DOMAIN log[r] : log[r][i].sid \in {0, browser[r]}
        /\ page[r] \in {0, browser[r]}
        /\ (validated[r] # NotValidated /\ pc[r] \notin {"launch", "done"}) =>
                browser[r] # 0
    /\ \A sid \in DOMAIN sessions :
        Cardinality({r \in active : browser[r] = sid}) = 1

C10_Witness ==
    /\ {1, 2} \subseteq active
    /\ browser[1] # 0 /\ browser[2] # 0
    /\ pc[1] = "capture" /\ pc[2] = "loading"
    /\ sessions[browser[1]].state = "open" /\ sessions[browser[2]].state = "open"

----------------------------------------------------------------------------
(* Properties of the composer *)

MostRecentFirst(h) ==
    \A i, j \in DOMAIN h : i < j => h[i].timestamp > h[j].timestamp

\* C8: the history, in memory and in localStorage, never has more than 10 entries
\* and is ordered most-recent-first; an addition puts the new entry first, keeps
\* the earlier entries in their order and, from a history of 10, drops only the
\* oldest.
C8_HistoryCapped ==
    /\ [](/\ Len(history) <= 10
          /\ Len(storage.text) <= 10
          /\ MostRecentFirst(history)
          /\ MostRecentFirst(parse(storage.text)))
    /\ [][(hpc = "json" /\ mounted' /\ history' # history) =>
            /\ Len(history') = (IF Len(history) < 10 THEN Len(history) + 1 ELSE 10)
            /\ history'[1].timestamp = now
            /\ \A i \in 2..Len(history') : history'[i] = history[i - 1]]_vars

C8_Witness ==
    /\ Len(history) = 10
    /\ history[10].timestamp = 2
    /\ history[1].timestamp > 10

\* A capture action ends in failure: fetch rejected, or the answer could not be
\* parsed, or it says success: false.
CaptureFails ==
    /\ mounted' /\ hpc' = "idle"
    /\ \/ hpc = "fetch"
       \/ hpc = "json" /\ (~inflight.json \/ ~inflight.data.success)

\* C9: a failing capture action leaves the preview, the history and the saved
\* history exactly as they were when the action began.
C9_FailureLeavesState ==
    /\ [](hpc # "idle" => history = closure.history)
    /\ [][CaptureFails =>
            /\ screenshot' = screenshot
            /\ history' = history
            /\ storage' = storage
            /\ toast' = "Failed to capture screenshot"]_vars

C9_Witness ==
    /\ hpc = "idle" /\ toast = "Failed to capture screenshot"
    /\ screenshot # NoScreenshot
    /\ history # <<>> /\ history[1].timestamp < now
    /\ history[1].screenshot = screenshot
    /\ storage.text = stringify(history)

----------------------------------------------------------------------------
(* Properties of concurrent invocations *)

SuspensionPoints == {"launch", "loading", "waitForTimeout", "capture"}

\* C11: while an invocation is suspended at the session acquisition, the
\* navigation, the settle delay or the capture, every other invocation that has
\* not returned yet has a continuation that can run.
C11_SuspensionBlocksOnlyItself ==
    \A r, q \in active :
        (r # q /\ pc[r] \in SuspensionPoints /\ pc[q] # "done") =>
            ENABLED HandlerStep(q)

C11_Witness ==
    /\ {1, 2} \subseteq active
    /\ pc[1] = "waitForTimeout"
    /\ pc[2] = "done" /\ cause[2] = "none"
    /\ browser[2] > browser[1]

----------------------------------------------------------------------------
(* Properties of the artifact *)

Succeeded(r) == r \in active /\ pc[r] = "done" /\ cause[r] = "none"

\* C12: the media type of a success artifact follows from the format alone:
\* application/pdf for pdf, image/png for png, image/jpeg for jpeg, whatever the
\* quality; a request whose quality is outside 0..100 gets no success result.
C12_MimeTypeByFormat ==
    \A r \in active :
        /\ Succeeded(r) =>
            response[r].screenshot.mime =
                (CASE validated[r].format = "pdf" -> "application/pdf"
                   [] validated[r].format = "png" -> "image/png"
                   [] validated[r].format = "jpeg" -> "image/jpeg")
        /\ OutOfRange(body[r].data, "quality", 0, 100) =>
            /\ validated[r] = NotValidated
            /\ pc[r] = "done" => ~response[r].success

C12_Witness ==
    /\ Succeeded(1)
    /\ validated[1].format = "jpeg" /\ validated[1].quality = 100
    /\ response[1].screenshot.mime = "image/jpeg"

----------------------------------------------------------------------------
(* Properties of pairs of requests *)

DiffersOnlyIn(a, b, f) ==
    /\ DOMAIN a = DOMAIN b
    /\ a[f] # b[f]
    /\ \A k \in DOMAIN a \ {f} : a[k] = b[k]

OpNames(r) == [i \in DOMAIN log[r] |-> log[r][i].op]

\* Invocations r1 and r2, at the same point of the handler, have driven their
\* sessions alike and hold the same capture and the same result.
SameRun(r1, r2) ==
    /\ (pc[r1] = pc[r2] /\ cause[r1] = cause[r2]) => OpNames(r1) = OpNames(r2)
    /\ (page[r1] # 0 /\ page[r2] # 0 /\ pc[r1] = pc[r2] /\ cause[r1] = cause[r2]) =>
        /\ sessions[page[r1]].viewport = sessions[page[r2]].viewport
        /\ sessions[page[r1]].interception = sessions[page[r2]].interception
        /\ sessions[page[r1]].styles = sessions[page[r2]].styles
        /\ sessions[page[r1]].url = sessions[page[r2]].url
    /\ (screenshotBuf[r1] # NoBuffer /\ screenshotBuf[r2] # NoBuffer) =>
        /\ screenshotBuf[r1].options = screenshotBuf[r2].options
        /\ screenshotBuf[r1].rendered = screenshotBuf[r2].rendered =>
                screenshotBuf[r1] = screenshotBuf[r2]
    /\ (Succeeded(r1) /\ Succeeded(r2) /\ screenshotBuf[r1] = screenshotBuf[r2]) =>
        response[r1] = response[r2]

\* C13: the quality is validated for every format, and two valid requests with
\* format png or pdf that differ only in quality make the same calls with the same
\* capture parameters and get the same result.
C13_QualityOnlyForJpeg ==
    /\ \A r \in active :
        OutOfRange(body[r].data, "quality", 0, 100) => validated[r] = NotValidated
    /\ \A r1, r2 \in active :
        (/\ DiffersOnlyIn(body[r1].data, body[r2].data, "quality")
         /\ body[r1].data.format # "jpeg"
         /\ validated[r1] # NotValidated /\ validated[r2] # NotValidated)
            => SameRun(r1, r2)

C13_Witness ==
    /\ DiffersOnlyIn(body[1].data, body[2].data, "quality")
    /\ body[1].data.format = "png"
    /\ Succeeded(1) /\ Succeeded(2)
    /\ response[1] = response[2]

\* C17: useProxy passes validation and changes nothing: two valid requests that
\* differ only in useProxy make the same calls and get the same result.
C17_UseProxyIgnored ==
    \A r1, r2 \in active :
        DiffersOnlyIn(body[r1].data, body[r2].data, "useProxy") =>
            /\ schemaAccepts(body[r1].data) = schemaAccepts(body[r2].data)
            /\ pc[r1] # "json" => validated[r1] # NotValidated
            /\ (validated[r1] # NotValidated /\ validated[r2] # NotValidated)
                    => SameRun(r1, r2)

C17_Witness ==
    /\ DiffersOnlyIn(body[1].data, body[2].data, "useProxy")
    /\ body[2].data.useProxy /\ body[2].data.noAds
    /\ Succeeded(1) /\ Succeeded(2)
    /\ OpNames(1) = OpNames(2)
    /\ response[1] = response[2]

----------------------------------------------------------------------------
(* Properties of the artifact's size *)

\* C14: a raster capture with fullPage has the height of the whole scrollable
\* document, but exactly 20000 px when the document is taller than that; without
\* fullPage it has the viewport's height; either is drawn at zoom / 100.
C14_FullPageHeightCapped ==
    \A r \in active :
        (screenshotBuf[r] # NoBuffer /\ validated[r].format # "pdf") =>
            LET full == scrollHeight(sessions[page[r]]) IN
            /\ screenshotBuf[r].height =
                 (IF validated[r].fullSize
                  THEN (IF full <= 20000 THEN full ELSE 20000)
                  ELSE validated[r].height)
            /\ screenshotBuf[r].scale = [num |-> validated[r].zoom, den |-> 100]

----------------------------------------------------------------------------
(* Properties of handleScreenshot *)

----------------------------------------------------------------------------
(* Properties of a failing request *)

\* The call whose rejection is recorded as cause c ("none": no call was made yet).
CallOf(c) ==
    CASE c \in {"json", "validation"} -> "none"
      [] c \in {"navigation-error", "navigation-timeout"} -> "goto"
      [] c = "capture" -> "capture"
      [] OTHER -> c

LastCall(r) ==
    IF log[r] = <<>> THEN "none"
    ELSE LET op == log[r][Len(log[r])].op IN
         IF op \in {"pdf", "screenshot"} THEN "capture" ELSE op

\* C16: once a step has failed, the handler has returned a failure and the failed
\* call is the last one it made (a failed launch is followed by no call at all);
\* nothing more is called after the return; a success result is returned only when
\* every call through the capture and the close succeeded, and it carries the
\* capture.
C16_FailureStopsPipeline ==
    /\ [](\A r \in active :
            /\ cause[r] # "none" =>
                /\ pc[r] = "done"
                /\ response[r].success = FALSE
                /\ LastCall(r) = CallOf(cause[r])
                /\ cause[r] = "launch" => (Len(log[r]) = 1 /\ sessions = <<>>)
                /\ cause[r] = "capture" => screenshotBuf[r] = NoBuffer
            /\ (pc[r] = "done" /\ response[r].success) =>
                /\ cause[r] = "none"
                /\ screenshotBuf[r] # NoBuffer
                /\ response[r].screenshot.payload = screenshotBuf[r]
                /\ {"launch", "newPage", "setViewport", "goto", "close"}
                        \subseteq Ops(r))
    /\ [][\A r \in active :
            pc[r] = "done" =>
                (log'[r] = log[r] /\ response'[r] = response[r] /\ pc'[r] = "done")]_vars

C16_Witness ==
    /\ Done(1) /\ cause[1] = "launch"
    /\ log[1] = <<[op |-> "launch", sid |-> 0]>>
    /\ response[1].success = FALSE

----------------------------------------------------------------------------
(* Properties of isLoading *)

\* C18: isLoading is true only while an invocation of handleScreenshot is in
\* progress, and whenever it is true it becomes false again: every invocation,
\* however it ends, resets it.
C18_LoadingReset ==
    /\ [](isLoading <=> hpc # "idle")
    /\ [][(hpc # "idle" /\ hpc' = "idle") => ~isLoading']_vars
    /\ (isLoading ~> ~isLoading)

C18_Witness ==
    /\ mounted /\ hpc = "idle" /\ ~isLoading
    /\ toast = "Failed to capture screenshot"
    /\ screenshot # NoScreenshot /\ history[1].timestamp = now
    /\ storage.text # stringify(history)

----------------------------------------------------------------------------
(* Properties of the saved history and of the empty URL *)

\* C19: whenever no invocation is in progress, the history in memory is the one
\* saved in localStorage; a failing localStorage.setItem leaves neither the history
\* nor the preview updated.
C19_HistoryMatchesStorage ==
    (mounted /\ hpc = "idle") => stringify(history) = storage.text

\* C20: a click with an empty URL calls fetch not at all and leaves the preview,
\* the history and the saved history as they are; it only shows the notification
\* "Please enter a URL".
C20_EmptyUrlNoCall ==
    [][(/\ mounted /\ mounted' /\ hpc = "idle"
        /\ options.url = "" /\ options' = options) =>
            /\ fetches' = fetches
            /\ hpc' = "idle" /\ isLoading' = isLoading
            /\ screenshot' = screenshot
            /\ history' = history
            /\ storage' = storage
            /\ toast' \in {toast, "Please enter a URL"}]_vars

C20_Witness ==
    /\ mounted /\ hpc = "idle" /\ options.url = ""
    /\ toast = "Please enter a URL"
    /\ fetches = 1
    /\ screenshot # NoScreenshot
    /\ Len(history) = 10 /\ storage.text = stringify(history)

====
